---- MODULE Spec2Model ----
(***************************************************************************)
(* GeneSplicer (contracts/gene-splicer/src/lib.rs): a Soroban contract     *)
(* that mints Genome Cartridges (splice_genome) bound to a future drand    *)
(* round and later finalizes them into Creatures (finalize_splice) from    *)
(* entropy whose BLS12-381 signature is verified inline.                   *)
(*                                                                         *)
(* The contract's storage, its entry points and its helpers are modelled   *)
(* from the source.  The host's BLS12-381 functions are modelled by a      *)
(* bilinear group of small prime order (GroupOrder) whose points have      *)
(* fixed byte encodings; a panic or a host trap aborts the invocation and  *)
(* the host rolls the invocation's writes back.                            *)
(***************************************************************************)
EXTENDS Integers, Sequences, FiniteSets, TLC

VARIABLES
    admin,              \* DataKey::Admin
    xlm_token,          \* DataKey::XlmToken: the token contract the fee is paid in
    cartridge_skin_count, \* DataKey::CartridgeSkinCount
    dev_mode,           \* DataKey::DevMode
    drand_public_key,   \* DataKey::DrandPublicKey (Bytes)
    next_cartridge_id,  \* DataKey::NextCartridgeId
    cartridges,         \* DataKey::Cartridge(id) -> GenomeCartridge
    user_cartridges,    \* DataKey::UserCartridges(addr) -> Vec<u32>
    creatures,          \* DataKey::Creature(id) -> Creature
    user_creatures,     \* DataKey::UserCreatures(addr) -> Vec<u32>
    balances,           \* the XLM token contract's balances
    ledger_time,        \* env.ledger().timestamp()
    last,               \* the last invocation: its arguments and its outcome
    minted,             \* history: the ids returned by successful splice_genome calls
    finalize_ok         \* history: per id, the number of successful finalize_splice calls

vars == <<admin, xlm_token, cartridge_skin_count, dev_mode, drand_public_key, next_cartridge_id,
          cartridges, user_cartridges, creatures, user_creatures, balances,
          ledger_time, last, minted, finalize_ok>>

(***************************************************************************)
(* Bounds of the model.                                                    *)
(***************************************************************************)
\* successful splice_genome calls explored (caps NextCartridgeId)
MaxCartridges == 2

(***************************************************************************)
(* Program constants.                                                      *)
(***************************************************************************)
fee_amount == 10000000
drand_genesis == 1692803367
drand_period == 3
RANDOMNESS_LEN == 32
SIGNATURE_LEN == 96
PUBLIC_KEY_LEN == 192

\* BLS12-381 base field modulus p, 48 bytes big-endian (negate_g1_bytes)
P_MODULUS ==
    <<
       26, 1, 17, 234, 57, 127, 230, 154, 75, 27, 167, 182, 67, 75, 172, 215,
       100, 119, 75, 132, 243, 133, 18, 191, 103, 48, 210, 160, 246, 176, 246, 36,
       30, 171, 255, 254, 177, 83, 255, 255, 185, 254, 255, 255, 255, 255, 170, 171
    >>

\* the G2 generator, 192 bytes x_c1 || x_c0 || y_c1 || y_c0
g2_gen_bytes ==
    <<
       19, 224, 43, 96, 82, 113, 159, 96, 125, 172, 211, 160, 136, 39, 79, 101,
       89, 107, 208, 208, 153, 32, 182, 26, 181, 218, 97, 187, 220, 127, 80, 73,
       51, 76, 241, 18, 19, 148, 93, 87, 229, 172, 125, 5, 93, 4, 43, 126,
       2, 74, 162, 178, 240, 143, 10, 145, 38, 8, 5, 39, 45, 197, 16, 81,
       198, 228, 122, 212, 250, 64, 59, 2, 180, 81, 11, 100, 122, 227, 209, 119,
       11, 172, 3, 38, 168, 5, 187, 239, 212, 128, 86, 200, 193, 33, 189, 184,
       6, 6, 196, 160, 46, 167, 52, 204, 50, 172, 210, 176, 43, 194, 139, 153,
       203, 62, 40, 126, 133, 167, 99, 175, 38, 116, 146, 171, 87, 46, 153, 171,
       63, 55, 13, 39, 92, 236, 29, 161, 170, 169, 7, 95, 240, 95, 121, 190,
       12, 229, 213, 39, 114, 125, 110, 17, 140, 201, 205, 198, 218, 46, 53, 26,
       173, 253, 155, 170, 140, 189, 211, 167, 109, 66, 154, 105, 81, 96, 209, 44,
       146, 58, 201, 204, 59, 172, 162, 137, 225, 147, 84, 134, 8, 184, 40, 1
    >>

(***************************************************************************)
(* Bytes.                                                                  *)
(***************************************************************************)
Zeros(n) == [i \in 1..n |-> 0]

Fill(n, b) == [i \in 1..n |-> b]

\* Bytes::get(i).unwrap_or(0), i counted from 0
GetOr0(bytes, i) == IF i < Len(bytes) THEN bytes[i + 1] ELSE 0

\* b with the byte at position i (from 1) replaced by another value
AlterByte(b, i) == [b EXCEPT ![i] = (b[i] + 1) % 256]

\* a and b have the same length and differ in exactly one byte
SingleByteChange(a, b) ==
    /\ Len(a) = Len(b)
    /\ Cardinality({i \in 1..Len(a) : a[i] # b[i]}) = 1

RECURSIVE ShiftRight8(_, _)
ShiftRight8(v, n) == IF n = 0 THEN v ELSE ShiftRight8(v \div 256, n - 1)

\* u64::to_be_bytes
to_be_bytes(round) == [i \in 1..8 |-> ShiftRight8(round, 8 - i) % 256]

(***************************************************************************)
(* negate_g1_bytes: x || y  ->  x || (p - y), byte-wise with borrow.       *)
(***************************************************************************)
RECURSIVE NegateLoop(_, _, _, _)
\* the loop `for i in (0..48).rev()` over the positions hi down to lo (from 1),
\* entered with a borrow: the borrow it leaves and the bytes of neg_y it writes.
\* The range is split in two so that the evaluation stays shallow; the later
\* (less significant) half runs first and its borrow, once known, enters the
\* earlier half.
NegateLoop(y_bytes, lo, hi, borrow) ==
    IF lo = hi
    THEN LET diff == (P_MODULUS[lo] - y_bytes[lo] - borrow) % 65536
         IN  [borrow |-> IF diff > 255 THEN 1 ELSE 0, neg_y |-> <<diff % 256>>]
    ELSE LET mid == (lo + hi) \div 2
             later == NegateLoop(y_bytes, mid + 1, hi, borrow)
             earlier == IF later.borrow = 1
                        THEN NegateLoop(y_bytes, lo, mid, 1)
                        ELSE NegateLoop(y_bytes, lo, mid, 0)
         IN  [borrow |-> earlier.borrow, neg_y |-> earlier.neg_y \o later.neg_y]

\* what a mutant of negate_g1_bytes does: the point is returned as it came
negate_g1_bytes_unchanged(point_bytes) == point_bytes

negate_g1_bytes(point_bytes) ==
    LET x_bytes == SubSeq(point_bytes, 1, 48)
        y_bytes == SubSeq(point_bytes, 49, 96)
    IN  x_bytes \o NegateLoop(y_bytes, 1, 48, 0).neg_y

(***************************************************************************)
(* The host's BLS12-381 functions, on a bilinear group of prime order      *)
(* GroupOrder: a point of the prime-order subgroup is k times the          *)
(* generator, 0 < k < GroupOrder, and e(a*G1, b*G2) = gT^(a*b).            *)
(* A point and its negative share x; the negative's y is p - y.            *)
(***************************************************************************)
GroupOrder == 7

HalfOrder == (GroupOrder - 1) \div 2

Scalars == 1..(GroupOrder - 1)

Point(k) == [kind |-> "point", k |-> k]

\* on the curve, outside the prime-order subgroup
Torsion == [kind |-> "torsion", k |-> 0]

\* bytes that encode no point of the curve: the host traps on them
Invalid == [kind |-> "invalid", k |-> 0]

G1X(j) == Zeros(47) \o <<j>>

\* uncompressed G1 encoding x || y of k * G1
G1Encode(k) ==
    IF k <= HalfOrder
    THEN G1X(k) \o Zeros(47) \o <<k>>
    ELSE G1X(GroupOrder - k) \o [P_MODULUS EXCEPT ![48] = P_MODULUS[48] - (GroupOrder - k)]

G1TorsionBytes == G1X(200) \o Zeros(47) \o <<1>>

G1TorsionNegBytes == G1X(200) \o [P_MODULUS EXCEPT ![48] = P_MODULUS[48] - 1]

\* G1Affine::from_bytes, as the host functions read the point
G1Decode(bytes) ==
    IF \E k \in Scalars : bytes = G1Encode(k)
    THEN Point(CHOOSE k \in Scalars : bytes = G1Encode(k))
    ELSE IF bytes \in {G1TorsionBytes, G1TorsionNegBytes} THEN Torsion
    ELSE Invalid

\* uncompressed G2 encoding of k * G2; 1 * G2 is the generator constant
G2Encode(k) == IF k = 1 THEN g2_gen_bytes ELSE Zeros(191) \o <<k>>

G2TorsionBytes == Zeros(191) \o <<200>>

\* G2Affine::from_bytes, as the host functions read the point
G2Decode(bytes) ==
    IF \E k \in Scalars : bytes = G2Encode(k)
    THEN Point(CHOOSE k \in Scalars : bytes = G2Encode(k))
    ELSE IF bytes = G2TorsionBytes THEN Torsion
    ELSE Invalid

g1_is_in_subgroup(point) == point.kind = "point"

g2_is_in_subgroup(point) == point.kind = "point"

\* env.crypto().sha256 on the 8 round bytes: a collision-free 32-byte digest
sha256(bytes) == Zeros(32 - Len(bytes)) \o bytes

\* hash_to_g1(message, dst): always a point of the subgroup
hash_to_g1(message) == Point((message[32] % (GroupOrder - 1)) + 1)

\* pairing_check: the product of e(g1[i], g2[i]) is the identity of GT
pairing_check(g1_points, g2_points) ==
    (g1_points[1].k * g2_points[1].k + g1_points[2].k * g2_points[2].k) % GroupOrder = 0

(***************************************************************************)
(* Outcomes of an invocation.                                              *)
(***************************************************************************)
OK == "ok"

\* require_auth failed: the address did not authorize the invocation
AuthError == "Error(Auth, InvalidAction)"

\* a host function trapped: the bytes encode no point of the curve
HostError == "Error(Crypto, InvalidInput)"

(***************************************************************************)
(* verify_drand_signature: the first failing step's error, or OK.          *)
(***************************************************************************)
verify_drand_signature(round, signature, drand_pubkey_bytes) ==
    IF Len(signature) # SIGNATURE_LEN
    THEN "Signature must be 96 bytes (uncompressed G1 affine)"
    ELSE
    LET negated_sig == negate_g1_bytes(signature)
        neg_sig_point == G1Decode(negated_sig)
        message == sha256(to_be_bytes(round))
        hashed_point == hash_to_g1(message)
        drand_pubkey == G2Decode(drand_pubkey_bytes)
        g2_gen == G2Decode(g2_gen_bytes)
    IN  IF neg_sig_point.kind = "invalid" THEN HostError
        ELSE IF ~g1_is_in_subgroup(neg_sig_point) THEN "Signature not in G1 subgroup"
        ELSE IF ~g1_is_in_subgroup(hashed_point) THEN "Hashed point not in G1 subgroup"
        ELSE IF Len(drand_pubkey_bytes) # PUBLIC_KEY_LEN
        THEN "Drand public key must be 192 bytes (uncompressed G2 affine)"
        ELSE IF drand_pubkey.kind = "invalid" THEN HostError
        ELSE IF ~g2_is_in_subgroup(drand_pubkey) THEN "Public key not in G2 subgroup"
        ELSE IF ~pairing_check(<<neg_sig_point, hashed_point>>, <<g2_gen, drand_pubkey>>)
        THEN "BLS12-381 pairing verification failed"
        ELSE OK

(***************************************************************************)
(* test_full_verification: the same verification with the public key as an *)
(* argument.  Its verdict: the result (OK when the function returns, the   *)
(* host's error when a host function traps), the boolean it returns and    *)
(* the cryptographic computations it ran, in order.                        *)
(***************************************************************************)
Verdict(result, ret, crypto) == [result |-> result, ret |-> ret, crypto |-> crypto]

test_full_verification(round, signature, public_key) ==
    IF Len(signature) # SIGNATURE_LEN THEN Verdict(OK, FALSE, <<>>)
    ELSE
    LET negated_sig == negate_g1_bytes(signature)
        neg_sig_point == G1Decode(negated_sig)
        message == sha256(to_be_bytes(round))
        hashed_point == hash_to_g1(message)
        drand_pubkey == G2Decode(public_key)
        g2_gen == G2Decode(g2_gen_bytes)
        step2 == <<"negate_g1_bytes", "g1_is_in_subgroup">>
        step5 == step2 \o <<"sha256", "hash_to_g1", "g1_is_in_subgroup">>
        step7 == step5 \o <<"g2_is_in_subgroup">>
    IN  IF neg_sig_point.kind = "invalid" THEN Verdict(HostError, FALSE, step2)
        ELSE IF ~g1_is_in_subgroup(neg_sig_point) THEN Verdict(OK, FALSE, step2)
        ELSE IF ~g1_is_in_subgroup(hashed_point) THEN Verdict(OK, FALSE, step5)
        ELSE IF Len(public_key) # PUBLIC_KEY_LEN THEN Verdict(OK, FALSE, step5)
        ELSE IF drand_pubkey.kind = "invalid" THEN Verdict(HostError, FALSE, step7)
        ELSE IF ~g2_is_in_subgroup(drand_pubkey) THEN Verdict(OK, FALSE, step7)
        ELSE Verdict(OK,
                     pairing_check(<<neg_sig_point, hashed_point>>, <<g2_gen, drand_pubkey>>),
                     step7 \o <<"pairing_check">>)

(***************************************************************************)
(* select_gene: the gene of a slot (0 = head, 1 = torso, 2 = legs).        *)
(***************************************************************************)
\* what a mutant of select_gene does: the variant is taken from random_value
\* itself, not from random_value >> 8
select_gene_low_bits(entropy, slot) ==
    LET offset == slot * 10
        byte1 == GetOr0(entropy, offset % 32)
        byte2 == GetOr0(entropy, (offset + 1) % 32)
        byte3 == GetOr0(entropy, (offset + 2) % 32)
        byte4 == GetOr0(entropy, (offset + 3) % 32)
        high24 == byte1 * 65536 + byte2 * 256 + byte3
        roll == ((high24 % 10) * 256 + byte4) % 10
        mod3 == ((high24 % 3) * 256 + byte4) % 3
        mod9 == ((high24 % 9) * 256 + byte4) % 9
    IN  IF roll = 0 THEN [id |-> 3 + mod3, rarity |-> "Legendary"]
        ELSE IF roll <= 3 THEN [id |-> mod3, rarity |-> "Rare"]
        ELSE [id |-> 6 + mod9, rarity |-> "Normal"]

\* what a mutant of select_gene does: the common genes start at id 7
select_gene_from_seven(entropy, slot) ==
    LET offset == slot * 10
        byte1 == GetOr0(entropy, offset % 32)
        byte2 == GetOr0(entropy, (offset + 1) % 32)
        byte3 == GetOr0(entropy, (offset + 2) % 32)
        byte4 == GetOr0(entropy, (offset + 3) % 32)
        high24 == byte1 * 65536 + byte2 * 256 + byte3
        roll == ((high24 % 10) * 256 + byte4) % 10
    IN  IF roll = 0 THEN [id |-> 3 + (high24 % 3), rarity |-> "Legendary"]
        ELSE IF roll <= 3 THEN [id |-> high24 % 3, rarity |-> "Rare"]
        ELSE [id |-> 7 + (high24 % 9), rarity |-> "Normal"]

\* what a mutant of select_gene does: the ledger time shifts the bytes read
select_gene_time_salted(entropy, slot) ==
    LET offset == slot * 10 + (ledger_time % 2)
        byte1 == GetOr0(entropy, offset % 32)
        byte2 == GetOr0(entropy, (offset + 1) % 32)
        byte3 == GetOr0(entropy, (offset + 2) % 32)
        byte4 == GetOr0(entropy, (offset + 3) % 32)
        high24 == byte1 * 65536 + byte2 * 256 + byte3
        roll == ((high24 % 10) * 256 + byte4) % 10
    IN  IF roll = 0 THEN [id |-> 3 + (high24 % 3), rarity |-> "Legendary"]
        ELSE IF roll <= 3 THEN [id |-> high24 % 3, rarity |-> "Rare"]
        ELSE [id |-> 6 + (high24 % 9), rarity |-> "Normal"]

select_gene(entropy, slot) ==
    LET offset == slot * 10
        byte1 == GetOr0(entropy, offset % 32)
        byte2 == GetOr0(entropy, (offset + 1) % 32)
        byte3 == GetOr0(entropy, (offset + 2) % 32)
        byte4 == GetOr0(entropy, (offset + 3) % 32)
        \* random_value = (byte1 << 24) | (byte2 << 16) | (byte3 << 8) | byte4
        \*              = high24 * 256 + byte4, with high24 = random_value >> 8
        high24 == byte1 * 65536 + byte2 * 256 + byte3
        roll == ((high24 % 10) * 256 + byte4) % 10
    IN  IF roll = 0 THEN [id |-> 3 + (high24 % 3), rarity |-> "Legendary"]
        ELSE IF roll <= 3 THEN [id |-> high24 % 3, rarity |-> "Rare"]
        ELSE [id |-> 6 + (high24 % 9), rarity |-> "Normal"]

(***************************************************************************)
(* The assigned round of a mint at ledger time t.                          *)
(***************************************************************************)
\* what a mutant of current_round does: the quotient is rounded up
current_round_rounded_up(t) ==
    IF t > drand_genesis
    THEN ((t - drand_genesis + drand_period - 1) \div drand_period) + 1
    ELSE 1

\* what a mutant of current_round does: before the genesis the distance counts
current_round_by_distance(t) ==
    IF t > drand_genesis
    THEN ((t - drand_genesis) \div drand_period) + 1
    ELSE ((drand_genesis - t) \div drand_period) + 1

current_round(t) ==
    IF t > drand_genesis THEN ((t - drand_genesis) \div drand_period) + 1 ELSE 1

\* what a mutant of splice_round_at does: the current round, with no margin
splice_round_at_current(t) == current_round(t)

splice_round_at(t) == current_round(t) + 2

(***************************************************************************)
(* The drand beacon (environment): its key pair and its output per round.  *)
(***************************************************************************)
\* the beacon's public key: its secret scalar times the G2 generator
BeaconPublicKey == G2Encode(3)

\* the one signature that satisfies e(sig, G2) = e(H(round), BeaconPublicKey)
BeaconSignature(round) ==
    G1Encode((G2Decode(BeaconPublicKey).k * hash_to_g1(sha256(to_be_bytes(round))).k)
             % GroupOrder)

\* the randomness published with the round: a digest of the round's signature
BeaconRandomness(round) ==
    LET sig == BeaconSignature(round)
    IN  [i \in 1..RANDOMNESS_LEN |-> (sig[48] * 41 + sig[96] * 13 + i * 7) % 256]

(***************************************************************************)
(* Inputs explored.                                                        *)
(***************************************************************************)
Addresses == {"admin", "alice"}

InitialAdmin == "admin"

\* alice holds two minting fees, the admin nothing
InitialBalances == [a \in Addresses |-> IF a = "alice" THEN 2 * fee_amount ELSE 0]

\* ledger timestamps: before the drand genesis, and in drand round 2
Times == {0, drand_genesis + 4}

BeaconRounds == {splice_round_at(t) : t \in Times}

FirstRound == CHOOSE r \in BeaconRounds : \A r2 \in BeaconRounds : r <= r2

\* the constructor's arguments: xlm_token, cartridge_skin_count, dev_mode and
\* drand_public_key (192 bytes: the constructor rejects any other length).
\* The token is the Stellar asset contract ("SAC") or a token that keeps a
\* part of every transfer ("FeeOnTransfer").
Deployment(token, skins, dev, key) ==
    [xlm_token |-> token, cartridge_skin_count |-> skins, dev_mode |-> dev,
     drand_public_key |-> key]

Deployments ==
    {Deployment("SAC", 2, FALSE, BeaconPublicKey),
     Deployment("SAC", 1, FALSE, G2TorsionBytes),
     Deployment("SAC", 1, FALSE, Zeros(PUBLIC_KEY_LEN)),
     Deployment("SAC", 1, TRUE, Zeros(PUBLIC_KEY_LEN)),
     Deployment("FeeOnTransfer", 1, TRUE, BeaconPublicKey)}

RoundInputs == BeaconRounds

RandomnessInputs ==
    {BeaconRandomness(r) : r \in BeaconRounds}
        \cup {AlterByte(BeaconRandomness(FirstRound), 1), Fill(31, 66)}

SignatureInputs ==
    {BeaconSignature(r) : r \in BeaconRounds}
        \cup {AlterByte(BeaconSignature(FirstRound), 96), G1TorsionBytes, Fill(48, 170)}

\* public keys given to test_full_verification: the beacon's, and one a byte short
PublicKeyInputs == {BeaconPublicKey, Zeros(PUBLIC_KEY_LEN - 1)}

CartridgeIds == 1..MaxCartridges

(***************************************************************************)
(* Storage and invocations.  A handler maps the storage at entry to an     *)
(* outcome: its result (OK or the error that aborted it), its return       *)
(* value and the storage as written when it ended.                         *)
(***************************************************************************)
Storage ==
    [admin |-> admin, xlm_token |-> xlm_token,
     cartridge_skin_count |-> cartridge_skin_count,
     dev_mode |-> dev_mode, drand_public_key |-> drand_public_key,
     next_cartridge_id |-> next_cartridge_id, cartridges |-> cartridges,
     user_cartridges |-> user_cartridges, creatures |-> creatures,
     user_creatures |-> user_creatures, balances |-> balances]

Outcome(result, ret, storage) == [result |-> result, ret |-> ret, storage |-> storage]

\* what a mutant of Commit does: the writes of an aborted invocation stay
CommitWithoutRollback(s, outcome) == outcome.storage

\* the host ends an invocation: a panic leaves no write behind
Commit(s, outcome) == IF outcome.result = OK THEN outcome.storage ELSE s

Install(s) ==
    /\ admin' = s.admin
    /\ xlm_token' = s.xlm_token
    /\ cartridge_skin_count' = s.cartridge_skin_count
    /\ dev_mode' = s.dev_mode
    /\ drand_public_key' = s.drand_public_key
    /\ next_cartridge_id' = s.next_cartridge_id
    /\ cartridges' = s.cartridges
    /\ user_cartridges' = s.user_cartridges
    /\ creatures' = s.creatures
    /\ user_creatures' = s.user_creatures
    /\ balances' = s.balances

\* what a mutant of token_transfer does: the sender pays one stroop on top
token_transfer_sender_fee(token, bal, from, to, amount) ==
    [a \in DOMAIN bal |->
        bal[a] - (IF a = from THEN amount + 1 ELSE 0) + (IF a = to THEN amount ELSE 0)]

\* token::Client::transfer: the recipient of a FeeOnTransfer token gets less
token_transfer(token, bal, from, to, amount) ==
    LET received == IF token = "SAC" THEN amount ELSE amount - 1
    IN  [a \in DOMAIN bal |->
            bal[a] - (IF a = from THEN amount ELSE 0) + (IF a = to THEN received ELSE 0)]

\* an invocation as the transaction records it: the entry point, the address
\* that authorized it, its arguments, its result and its return value
Call(op, auth, user, cartridge_id, round, randomness, signature, outcome) ==
    [op |-> op, auth |-> auth, user |-> user, cartridge_id |-> cartridge_id,
     round |-> round, randomness |-> randomness, signature |-> signature,
     result |-> outcome.result, ret |-> outcome.ret]

\* no transaction is being applied
NoCall == Call("none", "", "", 0, 0, <<>>, <<>>, Outcome("", 0, <<>>))

\* an invocation of test_full_verification as the transaction records it
VerificationCall(round, signature, public_key, verdict) ==
    [op |-> "test_full_verification", round |-> round, signature |-> signature,
     drand_public_key |-> public_key, result |-> verdict.result,
     ret |-> verdict.ret, crypto |-> verdict.crypto]

\* what a mutant of require_auth does: every caller passes
require_auth_skipped(auth, address) == TRUE

\* address.require_auth(): the invocation carries address's authorization
require_auth(auth, address) == auth = address

(***************************************************************************)
(* splice_genome(user), invoked with auth's authorization at ledger time   *)
(* t; skin is the PRNG's draw.                                             *)
(***************************************************************************)
\* what a mutant of mint_cartridge does: the counter is not incremented
mint_cartridge_same_id(s, t, user, skin) ==
    LET cartridge_id == s.next_cartridge_id
        cartridge == [id |-> cartridge_id, owner |-> user, skin_id |-> skin,
                      splice_round |-> splice_round_at(t), created_at |-> t,
                      finalized |-> FALSE]
    IN  Outcome(OK, cartridge_id,
                [s EXCEPT !.cartridges = cartridge_id :> cartridge @@ s.cartridges,
                          !.user_cartridges[user] = Append(@, cartridge_id)])

\* what a mutant of mint_cartridge does: the user's index is not extended
mint_cartridge_unindexed(s, t, user, skin) ==
    LET cartridge_id == s.next_cartridge_id
        cartridge == [id |-> cartridge_id, owner |-> user, skin_id |-> skin,
                      splice_round |-> splice_round_at(t), created_at |-> t,
                      finalized |-> FALSE]
    IN  Outcome(OK, cartridge_id,
                [s EXCEPT !.cartridges = cartridge_id :> cartridge @@ s.cartridges,
                          !.next_cartridge_id = cartridge_id + 1])

\* the cartridge is built and stored, the index and the counter updated
mint_cartridge(s, t, user, skin) ==
    LET cartridge_id == s.next_cartridge_id
        cartridge == [id |-> cartridge_id, owner |-> user, skin_id |-> skin,
                      splice_round |-> splice_round_at(t), created_at |-> t,
                      finalized |-> FALSE]
    IN  Outcome(OK, cartridge_id,
                [s EXCEPT !.cartridges = cartridge_id :> cartridge @@ s.cartridges,
                          !.user_cartridges[user] = Append(@, cartridge_id),
                          !.next_cartridge_id = cartridge_id + 1])

\* what a mutant of splice_genome does: the admin's balance is not compared
\* after the transfer
splice_genome_unverified(s, t, auth, user, skin) ==
    IF ~require_auth(auth, user) THEN Outcome(AuthError, 0, s)
    ELSE IF s.balances[user] < fee_amount
    THEN Outcome("Insufficient XLM balance for minting fee", 0, s)
    ELSE
    LET s1 == [s EXCEPT !.balances =
                  token_transfer(s.xlm_token, s.balances, user, s.admin, fee_amount)]
    IN  mint_cartridge(s1, t, user, skin)

splice_genome(s, t, auth, user, skin) ==
    IF ~require_auth(auth, user) THEN Outcome(AuthError, 0, s)
    ELSE IF s.balances[user] < fee_amount
    THEN Outcome("Insufficient XLM balance for minting fee", 0, s)
    ELSE
    LET admin_balance_before == s.balances[s.admin]
        s1 == [s EXCEPT !.balances =
                  token_transfer(s.xlm_token, s.balances, user, s.admin, fee_amount)]
        admin_balance_after == s1.balances[s.admin]
    IN  IF admin_balance_after # admin_balance_before + fee_amount
        THEN Outcome("Transfer verification failed", 0, s1)
        ELSE mint_cartridge(s1, t, user, skin)

(***************************************************************************)
(* finalize_splice(cartridge_id, round, randomness, signature), invoked    *)
(* with auth's authorization at ledger time t.                             *)
(***************************************************************************)
\* what a mutant of already_finalized does: the check is missing
already_finalized_unchecked(cartridge) == FALSE

\* `if cartridge.finalized`
already_finalized(cartridge) == cartridge.finalized

\* what a mutant of round_mismatch does: dev mode accepts any round
round_mismatch_unless_dev(s, round, cartridge) ==
    ~s.dev_mode /\ round # cartridge.splice_round

\* `if round != cartridge.splice_round`
round_mismatch(s, round, cartridge) == round # cartridge.splice_round

\* what a mutant of verify_entropy does: a failed verification is not fatal
verify_entropy_ignored(s, round, signature) == OK

\* what a mutant of verify_entropy does: the signature is verified in dev mode too
verify_entropy_in_dev_mode(s, round, signature) ==
    verify_drand_signature(round, signature, s.drand_public_key)

\* `if !dev_mode { Self::verify_drand_signature(&env, round, &signature) }`
verify_entropy(s, round, signature) ==
    IF ~s.dev_mode
    THEN verify_drand_signature(round, signature, s.drand_public_key)
    ELSE OK

\* what a mutant of new_creature does: every gene is read from the next slot
new_creature_shifted(cartridge, t, randomness) ==
    [id |-> cartridge.id, owner |-> cartridge.owner, skin_id |-> cartridge.skin_id,
     head_gene |-> select_gene(randomness, 1),
     torso_gene |-> select_gene(randomness, 2),
     legs_gene |-> select_gene(randomness, 3),
     finalized_at |-> t, entropy_round |-> cartridge.splice_round]

\* the Creature built from the cartridge and the randomness
new_creature(cartridge, t, randomness) ==
    [id |-> cartridge.id, owner |-> cartridge.owner, skin_id |-> cartridge.skin_id,
     head_gene |-> select_gene(randomness, 0),
     torso_gene |-> select_gene(randomness, 1),
     legs_gene |-> select_gene(randomness, 2),
     finalized_at |-> t, entropy_round |-> cartridge.splice_round]

\* what a mutant of store_finalized does: the Creature is not stored
store_finalized_without_creature(s, cartridge, creature) ==
    [s EXCEPT !.cartridges[cartridge.id].finalized = TRUE,
              !.user_creatures[cartridge.owner] = Append(@, cartridge.id)]

\* what a mutant of store_finalized does: the cartridge is stamped again
store_finalized_restamped(s, cartridge, creature) ==
    [s EXCEPT !.cartridges[cartridge.id] =
                  [cartridge EXCEPT !.finalized = TRUE,
                                    !.created_at = creature.finalized_at],
              !.creatures = cartridge.id :> creature @@ s.creatures,
              !.user_creatures[cartridge.owner] = Append(@, cartridge.id)]

\* what a mutant of store_finalized does: the Creature replaces the stored ones
store_finalized_alone(s, cartridge, creature) ==
    [s EXCEPT !.cartridges[cartridge.id].finalized = TRUE,
              !.creatures = cartridge.id :> creature,
              !.user_creatures[cartridge.owner] = Append(@, cartridge.id)]

\* what a mutant of store_finalized does: every stored cartridge is marked
store_finalized_marking_all(s, cartridge, creature) ==
    [s EXCEPT !.cartridges =
                  [id \in DOMAIN s.cartridges |-> [s.cartridges[id] EXCEPT !.finalized = TRUE]],
              !.creatures = cartridge.id :> creature @@ s.creatures,
              !.user_creatures[cartridge.owner] = Append(@, cartridge.id)]

\* the cartridge is marked, the Creature stored, the owner's index extended
store_finalized(s, cartridge, creature) ==
    [s EXCEPT !.cartridges[cartridge.id].finalized = TRUE,
              !.creatures = cartridge.id :> creature @@ s.creatures,
              !.user_creatures[cartridge.owner] = Append(@, cartridge.id)]

\* what a mutant of finalize_splice does: the length guards come first
finalize_splice_lengths_first(s, t, auth, cartridge_id, round, randomness, signature) ==
    IF Len(randomness) # RANDOMNESS_LEN
    THEN Outcome("Randomness must be 32 bytes", 0, s)
    ELSE IF Len(signature) # SIGNATURE_LEN
    THEN Outcome("Signature must be 96 bytes (uncompressed G1 affine coordinates)", 0, s)
    ELSE IF cartridge_id \notin DOMAIN s.cartridges THEN Outcome("Cartridge not found", 0, s)
    ELSE
    LET cartridge == s.cartridges[cartridge_id]
        verified == verify_entropy(s, round, signature)
        creature == new_creature(cartridge, t, randomness)
    IN  IF ~require_auth(auth, cartridge.owner) THEN Outcome(AuthError, 0, s)
        ELSE IF already_finalized(cartridge)
        THEN Outcome("Cartridge already finalized", 0, s)
        ELSE IF round_mismatch(s, round, cartridge) THEN Outcome("Round mismatch", 0, s)
        ELSE IF verified # OK THEN Outcome(verified, 0, s)
        ELSE Outcome(OK, cartridge_id, store_finalized(s, cartridge, creature))

\* what a mutant of finalize_splice does: a cartridge expires once the ledger
\* time has moved past its creation
finalize_splice_expiring(s, t, auth, cartridge_id, round, randomness, signature) ==
    IF cartridge_id \notin DOMAIN s.cartridges THEN Outcome("Cartridge not found", 0, s)
    ELSE
    LET cartridge == s.cartridges[cartridge_id]
        verified == verify_entropy(s, round, signature)
        creature == new_creature(cartridge, t, randomness)
    IN  IF ~require_auth(auth, cartridge.owner) THEN Outcome(AuthError, 0, s)
        ELSE IF already_finalized(cartridge)
        THEN Outcome("Cartridge already finalized", 0, s)
        ELSE IF t > cartridge.created_at THEN Outcome("Cartridge expired", 0, s)
        ELSE IF round_mismatch(s, round, cartridge) THEN Outcome("Round mismatch", 0, s)
        ELSE IF Len(randomness) # RANDOMNESS_LEN
        THEN Outcome("Randomness must be 32 bytes", 0, s)
        ELSE IF Len(signature) # SIGNATURE_LEN
        THEN Outcome("Signature must be 96 bytes (uncompressed G1 affine coordinates)", 0, s)
        ELSE IF verified # OK THEN Outcome(verified, 0, s)
        ELSE Outcome(OK, cartridge_id, store_finalized(s, cartridge, creature))

\* what a mutant of finalize_splice does: the round is compared before the
\* owner's authorization and the finalized flag are checked
finalize_splice_round_first(s, t, auth, cartridge_id, round, randomness, signature) ==
    IF cartridge_id \notin DOMAIN s.cartridges THEN Outcome("Cartridge not found", 0, s)
    ELSE
    LET cartridge == s.cartridges[cartridge_id]
        verified == verify_entropy(s, round, signature)
        creature == new_creature(cartridge, t, randomness)
    IN  IF round_mismatch(s, round, cartridge) THEN Outcome("Round mismatch", 0, s)
        ELSE IF ~require_auth(auth, cartridge.owner) THEN Outcome(AuthError, 0, s)
        ELSE IF already_finalized(cartridge)
        THEN Outcome("Cartridge already finalized", 0, s)
        ELSE IF Len(randomness) # RANDOMNESS_LEN
        THEN Outcome("Randomness must be 32 bytes", 0, s)
        ELSE IF Len(signature) # SIGNATURE_LEN
        THEN Outcome("Signature must be 96 bytes (uncompressed G1 affine coordinates)", 0, s)
        ELSE IF verified # OK THEN Outcome(verified, 0, s)
        ELSE Outcome(OK, cartridge_id, store_finalized(s, cartridge, creature))

finalize_splice(s, t, auth, cartridge_id, round, randomness, signature) ==
    IF cartridge_id \notin DOMAIN s.cartridges THEN Outcome("Cartridge not found", 0, s)
    ELSE
    LET cartridge == s.cartridges[cartridge_id]
        verified == verify_entropy(s, round, signature)
        creature == new_creature(cartridge, t, randomness)
    IN  IF ~require_auth(auth, cartridge.owner) THEN Outcome(AuthError, 0, s)
        ELSE IF already_finalized(cartridge)
        THEN Outcome("Cartridge already finalized", 0, s)
        ELSE IF round_mismatch(s, round, cartridge) THEN Outcome("Round mismatch", 0, s)
        ELSE IF Len(randomness) # RANDOMNESS_LEN
        THEN Outcome("Randomness must be 32 bytes", 0, s)
        ELSE IF Len(signature) # SIGNATURE_LEN
        THEN Outcome("Signature must be 96 bytes (uncompressed G1 affine coordinates)", 0, s)
        ELSE IF verified # OK THEN Outcome(verified, 0, s)
        ELSE Outcome(OK, cartridge_id, store_finalized(s, cartridge, creature))

(***************************************************************************)
(* set_admin(new_admin), invoked with auth's authorization.                *)
(***************************************************************************)
\* what a mutant of set_admin does: the admin's authorization is not required
set_admin_by_anyone(s, auth, new_admin) ==
    Outcome(OK, 0, [s EXCEPT !.admin = new_admin])

set_admin(s, auth, new_admin) ==
    IF ~require_auth(auth, s.admin) THEN Outcome(AuthError, 0, s)
    ELSE Outcome(OK, 0, [s EXCEPT !.admin = new_admin])

\* get_total_cartridges
get_total_cartridges == next_cartridge_id - 1

(***************************************************************************)
(* The state machine.  Transactions are applied one at a time: an entry    *)
(* point is invoked (last records the invocation), then the transaction    *)
(* ends and the next one runs at a ledger time that is no earlier.         *)
(***************************************************************************)
Init ==
    /\ admin = InitialAdmin
    /\ \E d \in Deployments :
          /\ xlm_token = d.xlm_token
          /\ cartridge_skin_count = d.cartridge_skin_count
          /\ dev_mode = d.dev_mode
          /\ drand_public_key = d.drand_public_key
    /\ next_cartridge_id = 1
    /\ cartridges = <<>>
    /\ user_cartridges = [a \in Addresses |-> <<>>]
    /\ creatures = <<>>
    /\ user_creatures = [a \in Addresses |-> <<>>]
    /\ balances = InitialBalances
    /\ ledger_time = 0
    /\ last = NoCall
    /\ minted = <<>>
    /\ finalize_ok = [i \in CartridgeIds |-> 0]

SpliceGenome(auth, user, skin) ==
    LET outcome == splice_genome(Storage, ledger_time, auth, user, skin)
    IN  /\ last = NoCall
        /\ outcome.result = OK => next_cartridge_id <= MaxCartridges
        /\ Install(Commit(Storage, outcome))
        /\ last' = Call("splice_genome", auth, user, 0, 0, <<>>, <<>>, outcome)
        /\ minted' = IF outcome.result = OK THEN Append(minted, outcome.ret) ELSE minted
        /\ UNCHANGED <<ledger_time, finalize_ok>>

FinalizeSplice(auth, cartridge_id, round, randomness, signature) ==
    LET outcome == finalize_splice(Storage, ledger_time, auth, cartridge_id, round,
                                   randomness, signature)
    IN  /\ last = NoCall
        /\ Install(Commit(Storage, outcome))
        /\ last' = Call("finalize_splice", auth, auth, cartridge_id, round, randomness,
                        signature, outcome)
        /\ finalize_ok' = IF outcome.result = OK
                          THEN [finalize_ok EXCEPT ![cartridge_id] = @ + 1]
                          ELSE finalize_ok
        /\ UNCHANGED <<ledger_time, minted>>

SetAdmin(auth, new_admin) ==
    LET outcome == set_admin(Storage, auth, new_admin)
    IN  /\ last = NoCall
        /\ Install(Commit(Storage, outcome))
        /\ last' = Call("set_admin", auth, new_admin, 0, 0, <<>>, <<>>, outcome)
        /\ UNCHANGED <<ledger_time, minted, finalize_ok>>

\* test_full_verification reads and writes no storage
TestFullVerification(round, signature, public_key) ==
    /\ last = NoCall
    /\ last' = VerificationCall(round, signature, public_key,
                                test_full_verification(round, signature, public_key))
    /\ UNCHANGED <<admin, xlm_token, cartridge_skin_count, dev_mode, drand_public_key,
                   next_cartridge_id, cartridges, user_cartridges, creatures,
                   user_creatures, balances, ledger_time, minted, finalize_ok>>

\* the transaction ends; the next one sees a timestamp that has not gone back
EndTransaction(t) ==
    /\ last # NoCall
    /\ t >= ledger_time
    /\ ledger_time' = t
    /\ last' = NoCall
    /\ UNCHANGED <<admin, xlm_token, cartridge_skin_count, dev_mode, drand_public_key,
                   next_cartridge_id, cartridges, user_cartridges, creatures,
                   user_creatures, balances, minted, finalize_ok>>

\* the values env.prng().gen_range(0..skin_count) can return
SkinDraws == 0..(cartridge_skin_count - 1)

Next ==
    \/ \E auth \in Addresses, user \in Addresses, skin \in SkinDraws :
            SpliceGenome(auth, user, skin)
    \/ \E auth \in Addresses, cartridge_id \in CartridgeIds, round \in RoundInputs,
          randomness \in RandomnessInputs, signature \in SignatureInputs :
            FinalizeSplice(auth, cartridge_id, round, randomness, signature)
    \/ \E auth \in Addresses, new_admin \in Addresses : SetAdmin(auth, new_admin)
    \/ \E round \in RoundInputs, signature \in SignatureInputs, key \in PublicKeyInputs :
            TestFullVerification(round, signature, key)
    \/ \E t \in Times : EndTransaction(t)

Spec == Init /\ [][Next]_vars

(***************************************************************************)
(* The round assignment on its own: mints at ledger times around the drand *)
(* genesis and around the boundaries of the first rounds.                  *)
(***************************************************************************)
RoundTimes ==
    {0, drand_genesis - 1, drand_genesis} \cup {drand_genesis + d : d \in 1..7}

RoundNext ==
    \/ \E user \in Addresses, skin \in SkinDraws : SpliceGenome(user, user, skin)
    \/ \E t \in RoundTimes : EndTransaction(t)

RoundSpec == Init /\ [][RoundNext]_vars

(***************************************************************************)
(* select_gene on its own: an entropy and a slot are drawn, and the gene   *)
(* is selected from them by either caller, before and after the ledger     *)
(* time moves on.                                                          *)
(***************************************************************************)
\* the byte values the entropies are made of
EntropyBytes == {0, 1, 9, 128, 255}

\* 32 bytes: the word repeated, every repetition raised by the step
EntropyOf(word, step) ==
    [i \in 1..RANDOMNESS_LEN |-> (word[((i - 1) % 4) + 1] + ((i - 1) \div 4) * step) % 256]

EntropyInputs ==
    {EntropyOf(<<b1, b2, b3, b4>>, step) :
        b1 \in EntropyBytes, b2 \in EntropyBytes, b3 \in EntropyBytes,
        b4 \in EntropyBytes, step \in {0, 37}}

\* 0 = head, 1 = torso, 2 = legs
Slots == {0, 1, 2}

\* a call of select_gene: who caused it, its arguments and the Gene returned
GeneCall(auth, entropy, slot, result, ret) ==
    [op |-> "select_gene", auth |-> auth, entropy |-> entropy, slot |-> slot,
     result |-> result, ret |-> ret]

GeneInit ==
    /\ admin = InitialAdmin
    /\ \E d \in Deployments :
          /\ xlm_token = d.xlm_token
          /\ cartridge_skin_count = d.cartridge_skin_count
          /\ dev_mode = d.dev_mode
          /\ drand_public_key = d.drand_public_key
    /\ next_cartridge_id = 1
    /\ cartridges = <<>>
    /\ user_cartridges = [a \in Addresses |-> <<>>]
    /\ creatures = <<>>
    /\ user_creatures = [a \in Addresses |-> <<>>]
    /\ balances = InitialBalances
    /\ ledger_time = 0
    /\ \E entropy \in EntropyInputs, slot \in Slots :
          last = GeneCall("", entropy, slot, "", [id |-> 0, rarity |-> ""])
    /\ minted = <<>>
    /\ finalize_ok = [i \in CartridgeIds |-> 0]

SelectGene(auth) ==
    /\ last' = GeneCall(auth, last.entropy, last.slot, OK,
                        select_gene(last.entropy, last.slot))
    /\ UNCHANGED <<admin, xlm_token, cartridge_skin_count, dev_mode, drand_public_key,
                   next_cartridge_id, cartridges, user_cartridges, creatures,
                   user_creatures, balances, ledger_time, minted, finalize_ok>>

AdvanceLedger(t) ==
    /\ t > ledger_time
    /\ ledger_time' = t
    /\ UNCHANGED <<admin, xlm_token, cartridge_skin_count, dev_mode, drand_public_key,
                   next_cartridge_id, cartridges, user_cartridges, creatures,
                   user_creatures, balances, last, minted, finalize_ok>>

GeneNext ==
    \/ \E auth \in Addresses : SelectGene(auth)
    \/ \E t \in Times : AdvanceLedger(t)

GeneSpec == GeneInit /\ [][GeneNext]_vars

\* the cartridge exists and has not been finalized
Pending(id) == id \in DOMAIN cartridges /\ ~cartridges[id].finalized

(***************************************************************************)
(* The genes of stored Creatures: owners finalize their pending cartridges *)
(* with the round's signature and a randomness from a wider set.           *)
(***************************************************************************)
TraitEntropies ==
    {EntropyOf(<<b1, b2, 9, 128>>, 37) : b1 \in EntropyBytes, b2 \in EntropyBytes}

TraitNext ==
    \/ \E user \in Addresses, skin \in SkinDraws : SpliceGenome(user, user, skin)
    \/ \E cartridge_id \in CartridgeIds, randomness \in TraitEntropies :
          /\ Pending(cartridge_id)
          /\ FinalizeSplice(cartridges[cartridge_id].owner, cartridge_id,
                            cartridges[cartridge_id].splice_round, randomness,
                            BeaconSignature(cartridges[cartridge_id].splice_round))
    \/ \E t \in Times : EndTransaction(t)

TraitSpec == Init /\ [][TraitNext]_vars

(***************************************************************************)
(* negate_g1_bytes on its own: a point x || y with a canonical y is drawn  *)
(* and negated, and its negative is negated in turn.                       *)
(***************************************************************************)
\* 48 bytes: the first, one byte at a position, and a fill for the others
FieldBytesOf(first, fill, pos, b) ==
    [i \in 1..Len(P_MODULUS) |-> IF i = 1 THEN first ELSE IF i = pos THEN b ELSE fill]

\* y coordinates below p: zero, one, p - 1, and values whose subtraction from
\* p borrows across few and across many bytes
YInputs ==
    {FieldBytesOf(first, fill, pos, b) :
        first \in {0, 1, 25}, fill \in {0, 255}, pos \in {2, 24, 48}, b \in {0, 1, 171, 255}}
        \cup {[P_MODULUS EXCEPT ![48] = P_MODULUS[48] - 1]}

XInputs == {Zeros(Len(P_MODULUS)), G1X(3), Fill(Len(P_MODULUS), 171)}

\* a call of negate_g1_bytes: its argument and the bytes it returned
NegateCall(point_bytes, result, ret) ==
    [op |-> "negate_g1_bytes", point_bytes |-> point_bytes, result |-> result, ret |-> ret]

NegateInit ==
    /\ admin = InitialAdmin
    /\ \E d \in Deployments :
          /\ xlm_token = d.xlm_token
          /\ cartridge_skin_count = d.cartridge_skin_count
          /\ dev_mode = d.dev_mode
          /\ drand_public_key = d.drand_public_key
    /\ next_cartridge_id = 1
    /\ cartridges = <<>>
    /\ user_cartridges = [a \in Addresses |-> <<>>]
    /\ creatures = <<>>
    /\ user_creatures = [a \in Addresses |-> <<>>]
    /\ balances = InitialBalances
    /\ ledger_time = 0
    /\ \E x_bytes \in XInputs, y_bytes \in YInputs :
          last = NegateCall(x_bytes \o y_bytes, "", <<>>)
    /\ minted = <<>>
    /\ finalize_ok = [i \in CartridgeIds |-> 0]

\* the point drawn is negated; then the point returned is
NegateG1Bytes ==
    LET point_bytes == IF last.result = OK THEN last.ret ELSE last.point_bytes
    IN  /\ last' = NegateCall(point_bytes, OK, negate_g1_bytes(point_bytes))
        /\ UNCHANGED <<admin, xlm_token, cartridge_skin_count, dev_mode, drand_public_key,
                       next_cartridge_id, cartridges, user_cartridges, creatures,
                       user_creatures, balances, ledger_time, minted, finalize_ok>>

NegateNext == NegateG1Bytes

NegateSpec == NegateInit /\ [][NegateNext]_vars

(***************************************************************************)
(* Dev mode: contracts deployed with dev_mode on and a public key that is  *)
(* the beacon's, outside the subgroup or no point at all; owners finalize  *)
(* their pending cartridges with every round, randomness and signature.    *)
(***************************************************************************)
DevDeployments ==
    {Deployment("SAC", 1, TRUE, key) :
        key \in {BeaconPublicKey, G2TorsionBytes, Zeros(PUBLIC_KEY_LEN)}}

DevInit ==
    /\ admin = InitialAdmin
    /\ \E d \in DevDeployments :
          /\ xlm_token = d.xlm_token
          /\ cartridge_skin_count = d.cartridge_skin_count
          /\ dev_mode = d.dev_mode
          /\ drand_public_key = d.drand_public_key
    /\ next_cartridge_id = 1
    /\ cartridges = <<>>
    /\ user_cartridges = [a \in Addresses |-> <<>>]
    /\ creatures = <<>>
    /\ user_creatures = [a \in Addresses |-> <<>>]
    /\ balances = InitialBalances
    /\ ledger_time = 0
    /\ last = NoCall
    /\ minted = <<>>
    /\ finalize_ok = [i \in CartridgeIds |-> 0]

DevNext ==
    \/ \E user \in Addresses, skin \in SkinDraws : SpliceGenome(user, user, skin)
    \/ \E cartridge_id \in CartridgeIds, round \in RoundInputs,
          randomness \in RandomnessInputs, signature \in SignatureInputs :
          /\ Pending(cartridge_id)
          /\ FinalizeSplice(cartridges[cartridge_id].owner, cartridge_id, round,
                            randomness, signature)
    \/ \E t \in Times : EndTransaction(t)

DevSpec == DevInit /\ [][DevNext]_vars

(***************************************************************************)
(* Properties.                                                             *)
(***************************************************************************)
StorageVars == <<admin, xlm_token, cartridge_skin_count, dev_mode, drand_public_key,
                 next_cartridge_id, cartridges, user_cartridges, creatures,
                 user_creatures, balances>>

\* e(signature, G2 generator) = e(H(round), key), all three points of the subgroups
ValidBlsSignature(round, signature, key) ==
    /\ Len(signature) = SIGNATURE_LEN
    /\ LET sig_point == G1Decode(signature)
           key_point == G2Decode(key)
           hashed_point == hash_to_g1(sha256(to_be_bytes(round)))
       IN  /\ sig_point.kind = "point"
           /\ key_point.kind = "point"
           /\ (sig_point.k * G2Decode(g2_gen_bytes).k) % GroupOrder
                 = (hashed_point.k * key_point.k) % GroupOrder

\* the genes of a Creature
Traits(creature) == <<creature.head_gene, creature.torso_gene, creature.legs_gene>>

\* C1: finalize_splice succeeds at most once per cartridge id, and every
\* finalize_splice on an id that has been finalized, authorized by the
\* cartridge's owner, fails with 'Cartridge already finalized' whatever round,
\* randomness and signature it carries.
C1_SingleFinalization ==
    [][last'.op = "finalize_splice" =>
          LET id == last'.cartridge_id
          IN  /\ finalize_ok'[id] <= 1
              /\ (finalize_ok[id] >= 1 /\ last'.auth = cartridges[id].owner)
                    => last'.result = "Cartridge already finalized"]_vars

\* C1 witness: the owner's second finalize of a finalized cartridge, with a round
\* that is not the cartridge's and a signature of the wrong length, was rejected
\* as already finalized.
C1_Witness ==
    /\ last.op = "finalize_splice"
    /\ last.cartridge_id \in DOMAIN cartridges
    /\ finalize_ok[last.cartridge_id] = 1
    /\ last.auth = cartridges[last.cartridge_id].owner
    /\ last.round # cartridges[last.cartridge_id].splice_round
    /\ Len(last.signature) # SIGNATURE_LEN
    /\ last.result = "Cartridge already finalized"

\* C2 as stated: every finalize_splice on a pending cartridge with a round other
\* than the cartridge's splice_round fails with 'Round mismatch' and creates no
\* Creature.
C2_RoundMismatchForEveryCaller ==
    [][(/\ last'.op = "finalize_splice"
        /\ Pending(last'.cartridge_id)
        /\ last'.round # cartridges[last'.cartridge_id].splice_round)
          => /\ last'.result = "Round mismatch"
             /\ creatures' = creatures]_vars

\* C2 amended: a finalize_splice on a pending cartridge with a round other than
\* the cartridge's splice_round never succeeds and creates no Creature; it fails
\* with 'Round mismatch' when the cartridge's owner authorized it and with the
\* authorization error otherwise, whatever the signature and the dev mode.
C2_RoundBinding ==
    [][(/\ last'.op = "finalize_splice"
        /\ Pending(last'.cartridge_id)
        /\ last'.round # cartridges[last'.cartridge_id].splice_round)
          => /\ creatures' = creatures
             /\ cartridges' = cartridges
             /\ IF last'.auth = cartridges[last'.cartridge_id].owner
                THEN last'.result = "Round mismatch"
                ELSE last'.result = AuthError]_vars

\* C2 witness: with dev mode off, the owner's finalize carrying the beacon's
\* genuine output of a round other than the cartridge's was rejected with
\* 'Round mismatch'.
C2_Witness ==
    /\ ~dev_mode
    /\ drand_public_key = BeaconPublicKey
    /\ last.op = "finalize_splice"
    /\ Pending(last.cartridge_id)
    /\ last.auth = cartridges[last.cartridge_id].owner
    /\ last.round # cartridges[last.cartridge_id].splice_round
    /\ last.signature = BeaconSignature(last.round)
    /\ last.randomness = BeaconRandomness(last.round)
    /\ last.result = "Round mismatch"

\* C3: with dev mode off and the beacon's key configured, a finalize_splice whose
\* (round, randomness, signature) differs from the beacon's output of that round
\* in a single byte of the signature or of the randomness is rejected.
C3_AlteredTripleRejected ==
    [][(/\ ~dev_mode
        /\ drand_public_key = BeaconPublicKey
        /\ last'.op = "finalize_splice"
        /\ \/ /\ SingleByteChange(last'.signature, BeaconSignature(last'.round))
              /\ last'.randomness = BeaconRandomness(last'.round)
           \/ /\ last'.signature = BeaconSignature(last'.round)
              /\ SingleByteChange(last'.randomness, BeaconRandomness(last'.round)))
          => last'.result # OK]_vars

\* C4: with dev mode off, two Creatures with the same entropy_round have the
\* same three traits.
C4_TraitsDeterminedByRound ==
    ~dev_mode =>
        \A i \in DOMAIN creatures, j \in DOMAIN creatures :
            creatures[i].entropy_round = creatures[j].entropy_round
                => Traits(creatures[i]) = Traits(creatures[j])

\* C5: a Creature is stored under an id if and only if the cartridge with that
\* id exists and has finalized = true.
C5_CreatureIffFinalized ==
    \A id \in CartridgeIds \cup DOMAIN creatures \cup DOMAIN cartridges :
        id \in DOMAIN creatures
            <=> (id \in DOMAIN cartridges /\ cartridges[id].finalized)

\* C5 witness: one cartridge is finalized and has its Creature, another is
\* pending and has none.
C5_Witness ==
    \E i \in DOMAIN cartridges, j \in DOMAIN cartridges :
        /\ cartridges[i].finalized
        /\ i \in DOMAIN creatures
        /\ ~cartridges[j].finalized
        /\ j \notin DOMAIN creatures

\* C6: a splice_genome or finalize_splice that fails leaves the cartridges, the
\* Creatures, both owner indices, the id counter, the configuration and the
\* token balances as they were.
C6_ErrorAtomicity ==
    [][(last'.op \in {"splice_genome", "finalize_splice"} /\ last'.result # OK)
          => UNCHANGED StorageVars]_vars

\* C6 witness: a splice_genome was aborted by the transfer verification, after
\* the token had moved the fee out of the caller's balance.
C6_Witness ==
    /\ last.op = "splice_genome"
    /\ last.result = "Transfer verification failed"
    /\ token_transfer(xlm_token, balances, last.user, admin, fee_amount) # balances
    /\ balances = InitialBalances

\* C7: a finalize_splice on an existing cartridge succeeds only when the
\* cartridge's owner authorized it; authorized by anyone else it fails with the
\* authorization error and creates no Creature.
C7_OwnershipGuard ==
    [][(last'.op = "finalize_splice" /\ last'.cartridge_id \in DOMAIN cartridges)
          => LET owner == cartridges[last'.cartridge_id].owner
             IN  /\ last'.result = OK => last'.auth = owner
                 /\ last'.auth # owner
                       => /\ last'.result = AuthError
                          /\ creatures' = creatures]_vars

\* C7 witness: a finalize of a pending cartridge that carried the matching round
\* and lengths, but not the owner's authorization, failed with the
\* authorization error.
C7_Witness ==
    /\ last.op = "finalize_splice"
    /\ Pending(last.cartridge_id)
    /\ last.auth # cartridges[last.cartridge_id].owner
    /\ last.round = cartridges[last.cartridge_id].splice_round
    /\ Len(last.randomness) = RANDOMNESS_LEN
    /\ Len(last.signature) = SIGNATURE_LEN
    /\ (dev_mode \/ ValidBlsSignature(last.round, last.signature, drand_public_key))
    /\ last.result = AuthError

\* C8: with dev mode off, a Creature appears only in a finalize_splice whose
\* signature is a valid BLS signature of its round under the configured key,
\* and a finalize_splice whose verification fails commits nothing.
C8_CreatureOnlyIfVerified ==
    [][~dev_mode =>
          /\ DOMAIN creatures' # DOMAIN creatures
                => /\ last'.op = "finalize_splice"
                   /\ ValidBlsSignature(last'.round, last'.signature, drand_public_key)
          /\ (/\ last'.op = "finalize_splice"
              /\ ~ValidBlsSignature(last'.round, last'.signature, drand_public_key))
                => /\ last'.result # OK
                   /\ UNCHANGED StorageVars]_vars

\* C8 witness: with dev mode off a finalize_splice succeeded and its Creature is
\* stored.
C8_Witness ==
    /\ ~dev_mode
    /\ last.op = "finalize_splice"
    /\ last.result = OK
    /\ last.cartridge_id \in DOMAIN creatures

\* C9: the successful splice_genome calls have returned 1, 2, 3, ... in call
\* order, so no id twice, and get_total_cartridges is their number.
C9_SequentialIds ==
    /\ minted = [i \in 1..Len(minted) |-> i]
    /\ get_total_cartridges = Len(minted)
    /\ DOMAIN cartridges = 1..Len(minted)

\* C9 witness: two callers have minted, the second mint returning 2.
C9_Witness ==
    /\ Len(minted) >= 2
    /\ cartridges[1].owner # cartridges[2].owner
    /\ last.op = "splice_genome"
    /\ last.ret = 2

\* C10: a stored cartridge stays stored with the same id, owner, skin_id,
\* splice_round and created_at; finalized never goes back to false, and the
\* record changes only in the one successful finalize_splice of its id.
C10_CartridgeFrame ==
    [][\A id \in DOMAIN cartridges :
          /\ id \in DOMAIN cartridges'
          /\ cartridges'[id].id = cartridges[id].id
          /\ cartridges'[id].owner = cartridges[id].owner
          /\ cartridges'[id].skin_id = cartridges[id].skin_id
          /\ cartridges'[id].splice_round = cartridges[id].splice_round
          /\ cartridges'[id].created_at = cartridges[id].created_at
          /\ cartridges[id].finalized => cartridges'[id].finalized
          /\ cartridges'[id] # cartridges[id]
                => /\ last'.op = "finalize_splice"
                   /\ last'.result = OK
                   /\ last'.cartridge_id = id
                   /\ finalize_ok'[id] = 1]_vars

\* C10 witness: a cartridge minted at one ledger time was finalized at a later
\* one, and another cartridge has been minted since.
C10_Witness ==
    \E id \in DOMAIN cartridges :
        /\ cartridges[id].finalized
        /\ creatures[id].finalized_at > cartridges[id].created_at
        /\ id + 1 \in DOMAIN cartridges

\* C11: a stored Creature stays stored and none of its fields changes, whatever
\* operation follows.
C11_CreatureFrame ==
    [][\A id \in DOMAIN creatures :
          /\ id \in DOMAIN creatures'
          /\ creatures'[id] = creatures[id]]_vars

\* C11 witness: after the first Creature was stored, at a later ledger time, a
\* second cartridge was finalized with other randomness and the admin changed.
C11_Witness ==
    \E i \in DOMAIN creatures, j \in DOMAIN creatures :
        /\ creatures[i].finalized_at < creatures[j].finalized_at
        /\ Traits(creatures[i]) # Traits(creatures[j])
        /\ admin # InitialAdmin

\* C12: a successful finalize_splice returns the cartridge id and stores under it
\* a Creature with that id, the cartridge's owner and skin_id, the cartridge's
\* splice_round as entropy_round, and as head, torso and legs genes the genes
\* selected from the supplied randomness for slots 0, 1 and 2.
C12_CreatureFromCartridge ==
    [][(last'.op = "finalize_splice" /\ last'.result = OK)
          => LET id == last'.cartridge_id
                 cartridge == cartridges[id]
                 creature == creatures'[id]
             IN  /\ last'.ret = id
                 /\ id \notin DOMAIN creatures
                 /\ creature.id = id
                 /\ creature.owner = cartridge.owner
                 /\ creature.skin_id = cartridge.skin_id
                 /\ creature.entropy_round = cartridge.splice_round
                 /\ creature.head_gene = select_gene(last'.randomness, 0)
                 /\ creature.torso_gene = select_gene(last'.randomness, 1)
                 /\ creature.legs_gene = select_gene(last'.randomness, 2)]_vars

\* C12 witness: the second cartridge, of skin 1 and of a later round than the
\* first, was finalized with success and its Creature has three different genes.
C12_Witness ==
    /\ last.op = "finalize_splice"
    /\ last.result = OK
    /\ last.cartridge_id = 2
    /\ creatures[2].skin_id = 1
    /\ creatures[2].entropy_round > cartridges[1].splice_round
    /\ Cardinality({creatures[2].head_gene, creatures[2].torso_gene,
                     creatures[2].legs_gene}) = 3

\* the time at which the beacon publishes a round: round 1 at the genesis
PublicationTime(round) == drand_genesis + (round - 1) * drand_period

\* C13: a cartridge created at ledger time t has splice_round = compute_round(t)
\* + 2, where compute_round(t) is 1 up to the genesis and afterwards the r with
\* g + (r - 1) * p <= t < g + r * p, that is floor((t - g) / p) + 1; a cartridge
\* created at t = 0 has round 3.
C13_AssignedRound ==
    \A id \in DOMAIN cartridges :
        LET t == cartridges[id].created_at
            r == cartridges[id].splice_round - 2
        IN  /\ t <= drand_genesis => r = 1
            /\ t > drand_genesis
                  => /\ drand_genesis + (r - 1) * drand_period <= t
                     /\ t < drand_genesis + r * drand_period
            /\ t = 0 => cartridges[id].splice_round = 3

\* C13 witness: a cartridge created at time 0 has round 3 and one created on
\* the boundary two periods after the genesis has round 5.
C13_Witness ==
    \E i \in DOMAIN cartridges, j \in DOMAIN cartridges :
        /\ cartridges[i].created_at = 0
        /\ cartridges[i].splice_round = 3
        /\ cartridges[j].created_at = drand_genesis + 2 * drand_period
        /\ cartridges[j].splice_round = 5

\* C14: the publication time of a cartridge's assigned round is strictly later
\* than the cartridge's created_at.
C14_RoundInTheFuture ==
    \A id \in DOMAIN cartridges :
        PublicationTime(cartridges[id].splice_round) > cartridges[id].created_at

\* C14 witness: a cartridge was created at the very second at which a round was
\* published, and its own round is published two periods later.
C14_Witness ==
    \E id \in DOMAIN cartridges :
        /\ cartridges[id].created_at = PublicationTime(2)
        /\ PublicationTime(cartridges[id].splice_round)
              = cartridges[id].created_at + 2 * drand_period

\* C15: of two cartridges, the one created at the earlier or the same ledger
\* time has the smaller or the same splice_round; so has the one created first.
C15_RoundMonotonic ==
    \A i \in DOMAIN cartridges, j \in DOMAIN cartridges :
        /\ cartridges[i].created_at <= cartridges[j].created_at
              => cartridges[i].splice_round <= cartridges[j].splice_round
        /\ i <= j => cartridges[i].splice_round <= cartridges[j].splice_round

\* C15 witness: a cartridge created before the genesis and one created after it
\* with a greater round, and the ledger time has moved on since.
C15_Witness ==
    /\ DOMAIN cartridges = {1, 2}
    /\ cartridges[1].created_at < drand_genesis
    /\ cartridges[1].created_at > 0
    /\ cartridges[2].created_at > drand_genesis
    /\ cartridges[1].splice_round < cartridges[2].splice_round
    /\ ledger_time > cartridges[2].created_at

\* the errors of the length guards of finalize_splice
ValidationErrors ==
    {"Randomness must be 32 bytes",
     "Signature must be 96 bytes (uncompressed G1 affine coordinates)"}

\* C16: a signature of a length other than 96, a public key of a length other
\* than 192 or a randomness of a length other than 32 is rejected before any
\* cryptographic computation has run: test_full_verification returns false
\* having run none, and a finalize_splice that has passed its state guards
\* fails with the error of a length guard.
C16_LengthGuardsBeforeCrypto ==
    [][/\ (/\ last'.op = "test_full_verification"
            /\ \/ Len(last'.signature) # SIGNATURE_LEN
               \/ Len(last'.drand_public_key) # PUBLIC_KEY_LEN)
              => /\ last'.crypto = <<>>
                 /\ last'.result = OK
                 /\ last'.ret = FALSE
       /\ (/\ last'.op = "finalize_splice"
            /\ Pending(last'.cartridge_id)
            /\ last'.auth = cartridges[last'.cartridge_id].owner
            /\ last'.round = cartridges[last'.cartridge_id].splice_round
            /\ \/ Len(last'.signature) # SIGNATURE_LEN
               \/ Len(last'.randomness) # RANDOMNESS_LEN)
              => last'.result \in ValidationErrors]_vars

\* C17 as stated: a finalize_splice whose randomness is not 32 bytes long or
\* whose signature is not 96 bytes long fails with the error of a length guard,
\* whatever the stored state.
C17_ValidationFirst ==
    [][(/\ last'.op = "finalize_splice"
        /\ \/ Len(last'.randomness) # RANDOMNESS_LEN
           \/ Len(last'.signature) # SIGNATURE_LEN)
          => last'.result \in ValidationErrors]_vars

\* C17 amended: a finalize_splice whose randomness is not 32 bytes long or whose
\* signature is not 96 bytes long always fails and writes nothing, and the
\* length guards come after the state guards: the error is 'Cartridge not found'
\* for an unknown id, else the authorization error for a caller other than the
\* owner, else 'Cartridge already finalized', else 'Round mismatch', and only
\* then the randomness guard's error, else the signature guard's.
C17_ValidationAfterStateGuards ==
    [][(/\ last'.op = "finalize_splice"
        /\ \/ Len(last'.randomness) # RANDOMNESS_LEN
           \/ Len(last'.signature) # SIGNATURE_LEN)
          => LET id == last'.cartridge_id
             IN  /\ UNCHANGED StorageVars
                 /\ last'.result =
                       IF id \notin DOMAIN cartridges THEN "Cartridge not found"
                       ELSE IF last'.auth # cartridges[id].owner THEN AuthError
                       ELSE IF cartridges[id].finalized THEN "Cartridge already finalized"
                       ELSE IF last'.round # cartridges[id].splice_round
                       THEN "Round mismatch"
                       ELSE IF Len(last'.randomness) # RANDOMNESS_LEN
                       THEN "Randomness must be 32 bytes"
                       ELSE "Signature must be 96 bytes (uncompressed G1 affine coordinates)"]_vars

\* C17 witness: with dev mode off, the owner's finalize of a pending cartridge
\* with the matching round, a short randomness and a short signature was
\* rejected by the randomness guard.
C17_Witness ==
    /\ ~dev_mode
    /\ last.op = "finalize_splice"
    /\ Pending(last.cartridge_id)
    /\ last.auth = cartridges[last.cartridge_id].owner
    /\ last.round = cartridges[last.cartridge_id].splice_round
    /\ Len(last.randomness) # RANDOMNESS_LEN
    /\ Len(last.signature) # SIGNATURE_LEN
    /\ last.result = "Randomness must be 32 bytes"

\* the reference mapping: v is the big-endian u32 of the four bytes at the
\* offsets (10 * slot + 0..3) mod 32, given here by v >> 8 and v mod 10
ReferenceByte(entropy, slot, j) == entropy[((10 * slot + j) % 32) + 1]

ReferenceShifted(entropy, slot) ==
    ReferenceByte(entropy, slot, 0) * 65536 + ReferenceByte(entropy, slot, 1) * 256
        + ReferenceByte(entropy, slot, 2)

\* v mod 10, from v = 256 * (v >> 8) + the last byte and 256 mod 10 = 6
ReferenceRoll(entropy, slot) ==
    (6 * (ReferenceShifted(entropy, slot) % 10) + ReferenceByte(entropy, slot, 3)) % 10

RollClass(roll) ==
    IF roll = 0 THEN "Legendary" ELSE IF roll <= 3 THEN "Rare" ELSE "Normal"

ReferenceGene(entropy, slot) ==
    LET shifted == ReferenceShifted(entropy, slot)
        class == RollClass(ReferenceRoll(entropy, slot))
    IN  [id |-> CASE class = "Legendary" -> 3 + (shifted % 3)
                  [] class = "Rare" -> shifted % 3
                  [] class = "Normal" -> 6 + (shifted % 9),
         rarity |-> class]

\* the rarity of an id: Rare 0-2, Legendary 3-5, Normal 6-14
ClassOfId(id) == IF id <= 2 THEN "Rare" ELSE IF id <= 5 THEN "Legendary" ELSE "Normal"

\* C18: select_gene(entropy, slot) is the reference mapping's Gene; its id is in
\* 0..14 and its rarity is the class of its id; 1, 3 and 6 of the 10 rolls are
\* Legendary, Rare and Normal.
C18_SelectGeneIsReference ==
    (last.op = "select_gene" /\ last.result = OK)
        => /\ last.ret = ReferenceGene(last.entropy, last.slot)
           /\ last.ret.id \in 0..14
           /\ last.ret.rarity = ClassOfId(last.ret.id)
           /\ Cardinality({r \in 0..9 : RollClass(r) = "Legendary"}) = 1
           /\ Cardinality({r \in 0..9 : RollClass(r) = "Rare"}) = 3
           /\ Cardinality({r \in 0..9 : RollClass(r) = "Normal"}) = 6

\* C18 witness: a Legendary gene was selected for the torso from four bytes
\* whose u32 is above 2^31 and whose position-dependent bytes differ.
C18_Witness ==
    /\ last.op = "select_gene"
    /\ last.result = OK
    /\ last.slot = 1
    /\ last.ret.rarity = "Legendary"
    /\ ReferenceByte(last.entropy, 1, 0) >= 128
    /\ last.entropy[1] # last.entropy[5]

\* the gene ids of a Creature
GeneIds(creature) == {creature.head_gene.id, creature.torso_gene.id, creature.legs_gene.id}

C20_SelectGeneDeterministic ==
    [][(/\ last.op = "select_gene"
        /\ last.result = OK
        /\ last'.op = "select_gene"
        /\ last'.result = OK
        /\ last'.entropy = last.entropy
        /\ last'.slot = last.slot)
          => last'.ret = last.ret]_vars

\* C20 witness: the gene was selected for one caller at ledger time 0 and then
\* for the other caller at a later ledger time.
C20_Witness ==
    /\ last.op = "select_gene"
    /\ last.result = OK
    /\ last.auth # InitialAdmin
    /\ ledger_time > 0
    /\ last.ret = select_gene(last.entropy, last.slot)
    /\ last.ret.id >= 10

\* C21: every successful splice_genome lowers the caller's token balance by
\* exactly the fee of 10_000_000 and raises the admin's balance by exactly the
\* fee, no other balance moving; a splice_genome by a caller whose balance is
\* below the fee fails, mints nothing and moves no balance.
C21_ExactFee ==
    [][last'.op = "splice_genome"
          => /\ last'.result = OK
                  => /\ last'.user # admin
                     /\ balances'[last'.user] = balances[last'.user] - fee_amount
                     /\ balances'[admin] = balances[admin] + fee_amount
                     /\ \A a \in Addresses \ {last'.user, admin} :
                            balances'[a] = balances[a]
             /\ balances[last'.user] < fee_amount
                  => /\ last'.result # OK
                     /\ UNCHANGED StorageVars
                     /\ minted' = minted]_vars

\* C21 witness: alice has paid the fee twice, all of it is with the admin, and
\* her third splice_genome was rejected for the balance she no longer has.
C21_Witness ==
    /\ minted = <<1, 2>>
    /\ balances["alice"] = 0
    /\ balances[admin] = 2 * fee_amount
    /\ last.op = "splice_genome"
    /\ last.auth = "alice"
    /\ last.user = "alice"
    /\ last.result = "Insufficient XLM balance for minting fee"

\* C22 as stated: across every operation, set_admin included, the fee of a
\* successful splice_genome goes to the address the constructor was given, the
\* skin count, the drand public key and the dev-mode flag keep the
\* constructor's values, and the admin changes only in a set_admin that the
\* current admin authorized.
C22_ConfigurationFixed ==
    [][/\ (last'.op = "splice_genome" /\ last'.result = OK)
              => balances'[InitialAdmin] = balances[InitialAdmin] + fee_amount
       /\ cartridge_skin_count' = cartridge_skin_count
       /\ drand_public_key' = drand_public_key
       /\ dev_mode' = dev_mode
       /\ admin' # admin => (last'.op = "set_admin" /\ last'.auth = admin)]_vars

\* C22 amended: the token contract, the skin count, the drand public key and
\* the dev-mode flag never change; the admin changes only in a successful
\* set_admin that the current admin authorized, to the address that call
\* names; and the fee of a successful splice_genome goes to the admin stored
\* when the call runs, so the recipient of the fee changes with the admin.
C22_FeeFollowsAdmin ==
    [][/\ xlm_token' = xlm_token
       /\ cartridge_skin_count' = cartridge_skin_count
       /\ drand_public_key' = drand_public_key
       /\ dev_mode' = dev_mode
       /\ admin' # admin
              => /\ last'.op = "set_admin"
                 /\ last'.auth = admin
                 /\ last'.result = OK
                 /\ admin' = last'.user
       /\ (last'.op = "set_admin" /\ last'.auth # admin)
              => (last'.result = AuthError /\ admin' = admin)
       /\ (last'.op = "splice_genome" /\ last'.result = OK)
              => /\ admin' = admin
                 /\ balances'[admin] = balances[admin] + fee_amount]_vars

\* C22 witness: the admin handed the role to alice, and the fee of the
\* splice_genome the former admin then made went to alice.
C22_Witness ==
    /\ admin = "alice"
    /\ admin # InitialAdmin
    /\ last.op = "splice_genome"
    /\ last.user = InitialAdmin
    /\ last.result = OK
    /\ balances[InitialAdmin] = 0
    /\ balances["alice"] = 2 * fee_amount

\* the configuration and cartridge id alone: what finalize_splice can read of
\* the storage once every other record is dropped
CartridgeAlone(s, id) ==
    [s EXCEPT !.admin = InitialAdmin,
              !.cartridges = id :> s.cartridges[id],
              !.user_cartridges = [a \in Addresses |-> <<>>],
              !.creatures = <<>>,
              !.user_creatures = [a \in Addresses |-> <<>>],
              !.balances = InitialBalances]

\* what the finalize_splice recorded in call does on storage s at ledger time
\* t: its result and, when it succeeds, the traits of the Creature it stores
FinalizeVerdict(s, t, call) ==
    LET outcome == finalize_splice(s, t, call.auth, call.cartridge_id, call.round,
                                   call.randomness, call.signature)
    IN  [result |-> outcome.result,
         traits |-> IF outcome.result = OK
                    THEN Traits(outcome.storage.creatures[call.cartridge_id]) ELSE <<>>]

\* C23: no expiry.  A cartridge leaves the Pending state only through a
\* successful finalize_splice of it; and a finalize_splice of a Pending
\* cartridge does, whenever it is made and whatever has happened to the other
\* records since the cartridge was created, what the same call does at any
\* other ledger time on the configuration and that cartridge alone: the same
\* result and, on success, the same traits.
C23_NoExpiry ==
    [][/\ \A id \in CartridgeIds :
             (Pending(id) /\ ~Pending(id)')
                => /\ last'.op = "finalize_splice"
                   /\ last'.cartridge_id = id
                   /\ last'.result = OK
       /\ (last'.op = "finalize_splice" /\ Pending(last'.cartridge_id))
             => \A t \in Times \cup {cartridges[last'.cartridge_id].created_at} :
                   FinalizeVerdict(CartridgeAlone(Storage, last'.cartridge_id), t, last')
                       = [result |-> last'.result,
                          traits |-> IF last'.result = OK
                                     THEN Traits(creatures'[last'.cartridge_id])
                                     ELSE <<>>]]_vars

\* C23 witness: a cartridge created at time 0 was finalized by its owner after
\* the ledger time had moved beyond the drand genesis, while another cartridge
\* is still Pending.
C23_Witness ==
    /\ last.op = "finalize_splice"
    /\ last.result = OK
    /\ cartridges[last.cartridge_id].created_at = 0
    /\ creatures[last.cartridge_id].finalized_at > drand_genesis
    /\ ledger_time > drand_genesis
    /\ \E id \in CartridgeIds : Pending(id)

\* the elements of a list
Listed(list) == {list[i] : i \in DOMAIN list}

\* C24: in every reachable state each owner's cartridge index lists exactly the
\* ids of the cartridges that owner created, in creation order (ids rise with
\* creation) and without duplicates, and each owner's creature index lists
\* exactly the ids of the Creatures that owner owns, each once, all of them in
\* the owner's cartridge index.
C24_IndexesExact ==
    \A a \in Addresses :
        /\ Listed(user_cartridges[a])
               = {id \in DOMAIN cartridges : cartridges[id].owner = a}
        /\ \A i, j \in DOMAIN user_cartridges[a] :
               i < j => user_cartridges[a][i] < user_cartridges[a][j]
        /\ Listed(user_creatures[a])
               = {id \in DOMAIN creatures : creatures[id].owner = a}
        /\ \A i, j \in DOMAIN user_creatures[a] :
               i # j => user_creatures[a][i] # user_creatures[a][j]
        /\ Listed(user_creatures[a]) \subseteq Listed(user_cartridges[a])

\* C24 witness: alice created cartridge 1 and the former admin cartridge 2, and
\* only the latter has been finalized.
C24_Witness ==
    /\ user_cartridges["alice"] = <<1>>
    /\ user_cartridges["admin"] = <<2>>
    /\ user_creatures["alice"] = <<>>
    /\ user_creatures["admin"] = <<2>>

\* C25: per-asset isolation.  Whatever calls came before, a call that fails
\* changes nothing; a successful finalize_splice of id i changes only
\* cartridge i, Creature i and the creature index of i's owner; a successful
\* splice_genome changes only the new cartridge, the caller's cartridge index,
\* the id counter and the balances of the caller and the admin.
C25_PerAssetIsolation ==
    [][/\ (last'.op \in {"splice_genome", "finalize_splice"} /\ last'.result # OK)
              => UNCHANGED StorageVars
       /\ (last'.op = "finalize_splice" /\ last'.result = OK)
              => LET i == last'.cartridge_id
                 IN  /\ DOMAIN cartridges' = DOMAIN cartridges
                     /\ \A j \in DOMAIN cartridges \ {i} : cartridges'[j] = cartridges[j]
                     /\ DOMAIN creatures' = DOMAIN creatures \cup {i}
                     /\ \A j \in DOMAIN creatures \ {i} : creatures'[j] = creatures[j]
                     /\ \A a \in Addresses \ {cartridges[i].owner} :
                            user_creatures'[a] = user_creatures[a]
                     /\ UNCHANGED <<admin, xlm_token, cartridge_skin_count, dev_mode,
                                    drand_public_key, next_cartridge_id, user_cartridges,
                                    balances>>
       /\ (last'.op = "splice_genome" /\ last'.result = OK)
              => /\ DOMAIN cartridges' = DOMAIN cartridges \cup {last'.ret}
                 /\ last'.ret \notin DOMAIN cartridges
                 /\ \A j \in DOMAIN cartridges : cartridges'[j] = cartridges[j]
                 /\ \A a \in Addresses \ {last'.user} :
                        user_cartridges'[a] = user_cartridges[a]
                 /\ \A a \in Addresses \ {last'.user, admin} : balances'[a] = balances[a]
                 /\ UNCHANGED <<admin, xlm_token, cartridge_skin_count, dev_mode,
                                drand_public_key, creatures, user_creatures>>]_vars

\* C25 witness: the creates of two callers and a finalize were interleaved:
\* alice created cartridge 1, the other caller created cartridge 2, and alice
\* finalized hers while cartridge 2 is still Pending.
C25_Witness ==
    /\ last.op = "finalize_splice"
    /\ last.result = OK
    /\ last.cartridge_id = 1
    /\ cartridges[1].owner = "alice"
    /\ 2 \in DOMAIN cartridges
    /\ cartridges[2].owner # "alice"
    /\ Pending(2)

\* the rounds whose entropy the contract has stored: DataKey has no entry for
\* entropy and no entry point stores any
entropy_rounds == {}

\* C26: there is a write-once entropy cache: the owner's well-formed
\* finalize_splice of a Pending cartridge for whose assigned round no entropy
\* has been stored fails (with 'Entropy not available for this round') and
\* stores no Creature (and a submission for a round whose entropy is stored
\* would be rejected, leaving the entry unchanged).
C26_WriteOnceEntropyCache ==
    [][(/\ last'.op = "finalize_splice"
        /\ Pending(last'.cartridge_id)
        /\ last'.auth = cartridges[last'.cartridge_id].owner
        /\ last'.round = cartridges[last'.cartridge_id].splice_round
        /\ Len(last'.randomness) = RANDOMNESS_LEN
        /\ Len(last'.signature) = SIGNATURE_LEN
        /\ cartridges[last'.cartridge_id].splice_round \notin entropy_rounds)
          => /\ last'.result # OK
             /\ UNCHANGED StorageVars]_vars

\* the errors of the guards of finalize_splice that precede the verification
GuardErrors ==
    {"Cartridge not found", AuthError, "Cartridge already finalized", "Round mismatch"}
        \cup ValidationErrors

\* C27: finalize_splice evaluates its guards in the order: cartridge exists,
\* owner's authorization, not already finalized, round equals splice_round,
\* randomness length 32, signature length 96, signature verification (skipped
\* in dev mode); every call fails with the error of the first guard it
\* violates in that order, and succeeds when it violates none.
C27_GuardOrder ==
    [][last'.op = "finalize_splice"
          => LET id == last'.cartridge_id
             IN  IF id \notin DOMAIN cartridges
                 THEN last'.result = "Cartridge not found"
                 ELSE IF last'.auth # cartridges[id].owner
                 THEN last'.result = AuthError
                 ELSE IF cartridges[id].finalized
                 THEN last'.result = "Cartridge already finalized"
                 ELSE IF last'.round # cartridges[id].splice_round
                 THEN last'.result = "Round mismatch"
                 ELSE IF Len(last'.randomness) # RANDOMNESS_LEN
                 THEN last'.result = "Randomness must be 32 bytes"
                 ELSE IF Len(last'.signature) # SIGNATURE_LEN
                 THEN last'.result
                        = "Signature must be 96 bytes (uncompressed G1 affine coordinates)"
                 ELSE IF dev_mode
                 THEN last'.result = OK
                 ELSE /\ last'.result \notin GuardErrors
                      /\ last'.result = OK
                            <=> ValidBlsSignature(last'.round, last'.signature,
                                                  drand_public_key)]_vars

\* C27 witness: a call that violates several guards: an address other than
\* the owner called finalize_splice on a finalized cartridge with another
\* round, a short randomness and a short signature, and the call failed with
\* the authorization error.
C27_Witness ==
    /\ last.op = "finalize_splice"
    /\ last.cartridge_id \in DOMAIN cartridges
    /\ last.auth # cartridges[last.cartridge_id].owner
    /\ cartridges[last.cartridge_id].finalized
    /\ last.round # cartridges[last.cartridge_id].splice_round
    /\ Len(last.randomness) # RANDOMNESS_LEN
    /\ Len(last.signature) # SIGNATURE_LEN
    /\ last.result = AuthError

\* the error of a point that fails its subgroup check: the check's own panic
\* for a point of the curve, the host's trap for bytes that encode none
SubgroupFailure(point, message) == IF point.kind = "torsion" THEN message ELSE HostError

\* C28: verify_drand_signature (run by finalize_splice once its own guards
\* have passed, dev mode off) returns without error if and only if the
\* signature's negative passes the G1 subgroup check (as the signature itself
\* then does), the hashed round passes the G1 subgroup check, the stored
\* public key passes the G2 subgroup check and e(-sig, G2 generator) *
\* e(H(round), key) = 1; otherwise it aborts at the first of these steps that
\* fails, in that order.
C28_VerificationVerdict ==
    [][(/\ last'.op = "finalize_splice"
        /\ ~dev_mode
        /\ Pending(last'.cartridge_id)
        /\ last'.auth = cartridges[last'.cartridge_id].owner
        /\ last'.round = cartridges[last'.cartridge_id].splice_round
        /\ Len(last'.randomness) = RANDOMNESS_LEN
        /\ Len(last'.signature) = SIGNATURE_LEN)
          => LET sig_point == G1Decode(last'.signature)
                 hashed_point == hash_to_g1(sha256(to_be_bytes(last'.round)))
                 key_point == G2Decode(drand_public_key)
                 g2_gen == G2Decode(g2_gen_bytes)
             IN  last'.result =
                    IF sig_point.kind # "point"
                    THEN SubgroupFailure(sig_point, "Signature not in G1 subgroup")
                    ELSE IF hashed_point.kind # "point"
                    THEN SubgroupFailure(hashed_point, "Hashed point not in G1 subgroup")
                    ELSE IF key_point.kind # "point"
                    THEN SubgroupFailure(key_point, "Public key not in G2 subgroup")
                    ELSE IF ((GroupOrder - sig_point.k) * g2_gen.k
                                + hashed_point.k * key_point.k) % GroupOrder # 0
                    THEN "BLS12-381 pairing verification failed"
                    ELSE OK]_vars

\* C28 witness: the three subgroup checks passed and the pairing check failed:
\* the owner's finalize_splice carried the beacon's signature of another round.
C28_Witness ==
    /\ ~dev_mode
    /\ last.op = "finalize_splice"
    /\ Pending(last.cartridge_id)
    /\ last.round = cartridges[last.cartridge_id].splice_round
    /\ G1Decode(last.signature).kind = "point"
    /\ G2Decode(drand_public_key).kind = "point"
    /\ \E round \in BeaconRounds \ {last.round} : last.signature = BeaconSignature(round)
    /\ last.result = "BLS12-381 pairing verification failed"

\* a < b for big-endian byte strings of one length
BytesLess(a, b) ==
    \E i \in 1..Len(a) : a[i] < b[i] /\ \A j \in 1..(i - 1) : a[j] = b[j]

RECURSIVE AddLoop(_, _, _, _, _)
\* the big-endian sum of the bytes lo..hi of a and b, entered with a carry:
\* the carry it leaves and the bytes of the sum
AddLoop(a, b, lo, hi, carry) ==
    IF lo = hi
    THEN LET sum == a[lo] + b[lo] + carry
         IN  [carry |-> sum \div 256, sum |-> <<sum % 256>>]
    ELSE LET mid == (lo + hi) \div 2
             low == AddLoop(a, b, mid + 1, hi, carry)
             high == IF low.carry = 1
                     THEN AddLoop(a, b, lo, mid, 1)
                     ELSE AddLoop(a, b, lo, mid, 0)
         IN  [carry |-> high.carry, sum |-> high.sum \o low.sum]

\* (y + z) mod p = 0, for y + z < 2p
NegativesModP(y_bytes, z_bytes) ==
    LET total == AddLoop(y_bytes, z_bytes, 1, Len(P_MODULUS), 0)
    IN  /\ total.carry = 0
        /\ total.sum \in {Zeros(Len(P_MODULUS)), P_MODULUS}

C30_DevModeBypass ==
    [][(/\ last'.op = "finalize_splice"
        /\ dev_mode
        /\ Pending(last'.cartridge_id)
        /\ last'.auth = cartridges[last'.cartridge_id].owner
        /\ last'.round = cartridges[last'.cartridge_id].splice_round)
          => IF Len(last'.randomness) # RANDOMNESS_LEN
             THEN last'.result = "Randomness must be 32 bytes" /\ UNCHANGED StorageVars
             ELSE IF Len(last'.signature) # SIGNATURE_LEN
             THEN /\ last'.result
                       = "Signature must be 96 bytes (uncompressed G1 affine coordinates)"
                  /\ UNCHANGED StorageVars
             ELSE /\ last'.result = OK
                  /\ last'.cartridge_id \in DOMAIN creatures'
                  /\ cartridges'[last'.cartridge_id].finalized]_vars

\* C30 witness: with dev mode on and the beacon's key stored, a finalize_splice
\* succeeded whose signature is no point of the subgroup and whose randomness
\* is not the round's.
C30_Witness ==
    /\ dev_mode
    /\ drand_public_key = BeaconPublicKey
    /\ last.op = "finalize_splice"
    /\ last.result = OK
    /\ G1Decode(last.signature).kind # "point"
    /\ last.randomness # BeaconRandomness(last.round)
    /\ last.cartridge_id \in DOMAIN creatures

\* C31: a splice_genome whose caller is the current admin never succeeds and
\* mints no cartridge: when the admin holds the fee, the transfer to itself
\* leaves its balance unchanged and the call fails with 'Transfer verification
\* failed'; nothing of the call stays in storage.
C31_AdminCannotMint ==
    [][(last'.op = "splice_genome" /\ last'.user = admin)
          => /\ last'.result # OK
             /\ UNCHANGED StorageVars
             /\ minted' = minted
             /\ (last'.auth = admin /\ balances[admin] >= fee_amount)
                   => last'.result = "Transfer verification failed"]_vars

\* C31 witness: the admin, holding the fee of an earlier mint, called
\* splice_genome for itself and the call failed the transfer verification.
C31_Witness ==
    /\ last.op = "splice_genome"
    /\ last.auth = admin
    /\ last.user = admin
    /\ balances[admin] >= fee_amount
    /\ minted # <<>>
    /\ last.result = "Transfer verification failed"

====
